---- MODULE Spec2Model ----
(***************************************************************************)
(* Planner/executor agent: the executor's tool-calling loop                *)
(* (src/main.py run_agent_for_api), its gateway and dispatcher, the code   *)
(* runner (answer_questions) and the two tool adapters (src/tools).        *)
(*                                                                         *)
(* Python str values are sequences of one-character strings.  Python/JSON  *)
(* values are tagged records:                                              *)
(*   None/null [t |-> "null"]        bool  [t |-> "bool", b |-> ...]       *)
(*   int       [t |-> "num", n |-> _] str   [t |-> "str",  s |-> chars]    *)
(*   list      [t |-> "arr", a |-> seq of values]                          *)
(*   dict      [t |-> "obj", o |-> seq of [k |-> chars, v |-> value]]      *)
(*             (insertion ordered, keys unique)                            *)
(***************************************************************************)
EXTENDS Integers, Sequences, FiniteSets, TLC

(***************************************************************************)
(* Values                                                                  *)
(***************************************************************************)
JNull == [t |-> "null"]
JBool(b) == [t |-> "bool", b |-> b]
JNum(n) == [t |-> "num", n |-> n]
JStr(s) == [t |-> "str", s |-> s]
JArr(a) == [t |-> "arr", a |-> a]
JObj(o) == [t |-> "obj", o |-> o]
KV(k, v) == [k |-> k, v |-> v]

\* dict.get(key): the value stored under key, None when absent
DictGet(d, key) ==
  IF \E j \in 1..Len(d.o) : d.o[j].k = key
  THEN d.o[CHOOSE j \in 1..Len(d.o) : d.o[j].k = key].v
  ELSE JNull

DictKeys(d) == {d.o[j].k : j \in 1..Len(d.o)}

\* d[key] = v on an insertion-ordered dict: an existing key keeps its place
DictSet(o, key, v) ==
  IF \E j \in 1..Len(o) : o[j].k = key
  THEN [j \in 1..Len(o) |-> IF o[j].k = key THEN KV(key, v) ELSE o[j]]
  ELSE Append(o, KV(key, v))

(***************************************************************************)
(* str.strip(): leading and trailing whitespace removed                    *)
(***************************************************************************)
PyWhitespace == {" ", "\n", "\t", "\r"}

RECURSIVE LStrip(_)
LStrip(s) ==
  IF s # <<>> /\ Head(s) \in PyWhitespace THEN LStrip(Tail(s)) ELSE s

RECURSIVE RStrip(_)
RStrip(s) ==
  IF s # <<>> /\ s[Len(s)] \in PyWhitespace
  THEN RStrip(SubSeq(s, 1, Len(s) - 1)) ELSE s

Strip(s) == RStrip(LStrip(s))

(***************************************************************************)
(* json.dumps with the default separators (", " and ": ")                  *)
(***************************************************************************)
DigitChar(d) ==
  CASE d = 0 -> "0" [] d = 1 -> "1" [] d = 2 -> "2" [] d = 3 -> "3"
    [] d = 4 -> "4" [] d = 5 -> "5" [] d = 6 -> "6" [] d = 7 -> "7"
    [] d = 8 -> "8" [] d = 9 -> "9"

RECURSIVE NatChars(_)
NatChars(n) ==
  IF n < 10 THEN <<DigitChar(n)>>
  ELSE Append(NatChars(n \div 10), DigitChar(n % 10))

EscapeChar(c) ==
  CASE c = "\"" -> <<"\\", "\"">>
    [] c = "\\" -> <<"\\", "\\">>
    [] c = "\n" -> <<"\\", "n">>
    [] c = "\t" -> <<"\\", "t">>
    [] c = "\r" -> <<"\\", "r">>
    [] OTHER    -> <<c>>

RECURSIVE EscapeChars(_)
EscapeChars(s) ==
  IF s = <<>> THEN <<>> ELSE EscapeChar(Head(s)) \o EscapeChars(Tail(s))

DumpsStr(s) == <<"\"">> \o EscapeChars(s) \o <<"\"">>

RECURSIVE Dumps(_)
RECURSIVE DumpsItems(_)
RECURSIVE DumpsPairs(_)
DumpsItems(a) ==
  IF a = <<>> THEN <<>>
  ELSE IF Len(a) = 1 THEN Dumps(a[1])
  ELSE Dumps(a[1]) \o <<",", " ">> \o DumpsItems(Tail(a))
DumpsPairs(o) ==
  IF o = <<>> THEN <<>>
  ELSE LET one == DumpsStr(o[1].k) \o <<":", " ">> \o Dumps(o[1].v)
       IN IF Len(o) = 1 THEN one
          ELSE one \o <<",", " ">> \o DumpsPairs(Tail(o))
Dumps(v) ==
  CASE v.t = "null" -> <<"n", "u", "l", "l">>
    [] v.t = "bool" -> IF v.b THEN <<"t", "r", "u", "e">>
                       ELSE <<"f", "a", "l", "s", "e">>
    [] v.t = "num"  -> NatChars(v.n)
    [] v.t = "str"  -> DumpsStr(v.s)
    [] v.t = "arr"  -> <<"[">> \o DumpsItems(v.a) \o <<"]">>
    [] v.t = "obj"  -> <<"{">> \o DumpsPairs(v.o) \o <<"}">>

(***************************************************************************)
(* json.loads: a recursive-descent parser of the JSON grammar over the     *)
(* characters the model uses (no sign, fraction or exponent, no \u escape; *)
(* a character outside the grammar is a syntax error, as in json.loads).   *)
(* A parse step returns [ok |-> TRUE, v |-> value, i |-> next index] or    *)
(* [ok |-> FALSE] (json.JSONDecodeError).                                  *)
(***************************************************************************)
JsonWhitespace == {" ", "\n", "\t", "\r"}
Digits == {"0", "1", "2", "3", "4", "5", "6", "7", "8", "9"}
DigitVal(c) ==
  CASE c = "0" -> 0 [] c = "1" -> 1 [] c = "2" -> 2 [] c = "3" -> 3
    [] c = "4" -> 4 [] c = "5" -> 5 [] c = "6" -> 6 [] c = "7" -> 7
    [] c = "8" -> 8 [] c = "9" -> 9

PFail == [ok |-> FALSE]
POk(v, i) == [ok |-> TRUE, v |-> v, i |-> i]

RECURSIVE SkipWs(_, _)
SkipWs(s, i) ==
  IF i <= Len(s) /\ s[i] \in JsonWhitespace THEN SkipWs(s, i + 1) ELSE i

HasAt(s, i, lit) ==
  /\ i + Len(lit) - 1 <= Len(s)
  /\ SubSeq(s, i, i + Len(lit) - 1) = lit

\* digits after the first one of an integer that does not start with 0
RECURSIVE ScanDigits(_, _, _)
ScanDigits(s, i, acc) ==
  IF i <= Len(s) /\ s[i] \in Digits
  THEN ScanDigits(s, i + 1, acc * 10 + DigitVal(s[i]))
  ELSE POk(JNum(acc), i)

\* the body of a string, s[i] being the first character after the quote
RECURSIVE ScanString(_, _, _)
ScanString(s, i, acc) ==
  IF i > Len(s) THEN PFail
  ELSE IF s[i] = "\"" THEN POk(JStr(acc), i + 1)
  ELSE IF s[i] = "\\" THEN
    IF i + 1 > Len(s) THEN PFail
    ELSE CASE s[i + 1] = "\"" -> ScanString(s, i + 2, Append(acc, "\""))
           [] s[i + 1] = "\\" -> ScanString(s, i + 2, Append(acc, "\\"))
           [] s[i + 1] = "n"  -> ScanString(s, i + 2, Append(acc, "\n"))
           [] s[i + 1] = "t"  -> ScanString(s, i + 2, Append(acc, "\t"))
           [] s[i + 1] = "r"  -> ScanString(s, i + 2, Append(acc, "\r"))
           [] OTHER -> PFail
  ELSE IF s[i] \in {"\n", "\t", "\r"} THEN PFail   \* strict: no control characters
  ELSE ScanString(s, i + 1, Append(acc, s[i]))

RECURSIVE ParseValue(_, _)
RECURSIVE ParseElems(_, _, _)
RECURSIVE ParseMembers(_, _, _)
\* after "[" and at least one element position: value (ws) ("," ws value)* "]"
ParseElems(s, i, acc) ==
  LET r == ParseValue(s, i) IN
  IF ~r.ok THEN PFail
  ELSE LET j == SkipWs(s, r.i) IN
       IF j > Len(s) THEN PFail
       ELSE IF s[j] = "]" THEN POk(JArr(Append(acc, r.v)), j + 1)
       ELSE IF s[j] = "," THEN ParseElems(s, SkipWs(s, j + 1), Append(acc, r.v))
       ELSE PFail
\* at a member: string ws ":" ws value ws ("," ws member | "}")
ParseMembers(s, i, acc) ==
  IF i > Len(s) \/ s[i] # "\"" THEN PFail
  ELSE LET k == ScanString(s, i + 1, <<>>) IN
       IF ~k.ok THEN PFail
       ELSE LET c == SkipWs(s, k.i) IN
            IF c > Len(s) \/ s[c] # ":" THEN PFail
            ELSE LET r == ParseValue(s, SkipWs(s, c + 1)) IN
                 IF ~r.ok THEN PFail
                 ELSE LET j == SkipWs(s, r.i)
                          acc2 == DictSet(acc, k.v.s, r.v)
                      IN IF j > Len(s) THEN PFail
                         ELSE IF s[j] = "}" THEN POk(JObj(acc2), j + 1)
                         ELSE IF s[j] = ","
                              THEN ParseMembers(s, SkipWs(s, j + 1), acc2)
                         ELSE PFail
ParseValue(s, i) ==
  IF i > Len(s) THEN PFail
  ELSE IF s[i] = "\"" THEN ScanString(s, i + 1, <<>>)
  ELSE IF s[i] = "[" THEN
    LET j == SkipWs(s, i + 1) IN
    IF j <= Len(s) /\ s[j] = "]" THEN POk(JArr(<<>>), j + 1)
    ELSE ParseElems(s, j, <<>>)
  ELSE IF s[i] = "{" THEN
    LET j == SkipWs(s, i + 1) IN
    IF j <= Len(s) /\ s[j] = "}" THEN POk(JObj(<<>>), j + 1)
    ELSE ParseMembers(s, j, <<>>)
  ELSE IF s[i] = "0" THEN POk(JNum(0), i + 1)
  ELSE IF s[i] \in Digits THEN ScanDigits(s, i + 1, DigitVal(s[i]))
  ELSE IF HasAt(s, i, <<"n", "u", "l", "l">>) THEN POk(JNull, i + 4)
  ELSE IF HasAt(s, i, <<"t", "r", "u", "e">>) THEN POk(JBool(TRUE), i + 4)
  ELSE IF HasAt(s, i, <<"f", "a", "l", "s", "e">>) THEN POk(JBool(FALSE), i + 5)
  ELSE PFail

\* json.loads(s): the value, or JSONDecodeError (also for trailing data)
Loads(s) ==
  LET r == ParseValue(s, SkipWs(s, 1)) IN
  IF ~r.ok THEN PFail
  ELSE IF SkipWs(s, r.i) # Len(s) + 1 THEN PFail
  ELSE POk(r.v, r.i)

(***************************************************************************)
(* String literals of the source, as character sequences                   *)
(***************************************************************************)
S_error == <<"e", "r", "r", "o", "r">>
S_code_failed == <<"c", "o", "d", "e", "_", "f", "a", "i", "l", "e", "d">>
S_stderr == <<"s", "t", "d", "e", "r", "r">>
S_ok == <<"o", "k">>
S_file == <<"f", "i", "l", "e">>
S_url == <<"u", "r", "l">>
S_engine == <<"e", "n", "g", "i", "n", "e">>
S_httpx == <<"h", "t", "t", "p", "x">>
S_playwright == <<"p", "l", "a", "y", "w", "r", "i", "g", "h", "t">>
S_data == <<"d", "a", "t", "a">>
S_count == <<"c", "o", "u", "n", "t">>
S_selector == <<"s", "e", "l", "e", "c", "t", "o", "r">>
S_output_file == <<"o", "u", "t", "p", "u", "t", "_", "f", "i", "l", "e">>
S_wait_until == <<"w", "a", "i", "t", "_", "u", "n", "t", "i", "l">>
S_timeout_ms == <<"t", "i", "m", "e", "o", "u", "t", "_", "m", "s">>
S_file_name == <<"f", "i", "l", "e", "_", "n", "a", "m", "e">>
S_js_selector == <<"j", "s", "_", "s", "e", "l", "e", "c", "t", "o", "r">>
S_code == <<"c", "o", "d", "e">>
\* f"Unknown tool '{name}'"
UnknownToolText(name) ==
  <<"U", "n", "k", "n", "o", "w", "n", " ", "t", "o", "o", "l", " ", "'">>
    \o name \o <<"'">>

(***************************************************************************)
(* Files.  A path is a character sequence; the two fixed paths of the      *)
(* source are written as one symbol each.  A file holds text (a generated  *)
(* script) or markup, a sequence of elements [cls, text] in document order.*)
(***************************************************************************)
TEMP_SCRIPT_PATH == <<"outputs/temp_script.py">>
DEFAULT_OUTPUT_FILE == <<"outputs/scraped_content.html">>
NoFile == [kind |-> "none"]
TextFile(s) == [kind |-> "text", s |-> s]
HtmlFile(els) == [kind |-> "html", els |-> els]
Elem(cls, text) == [cls |-> cls, text |-> text]

\* The result of one tool function: it returned ret (a str or a dict) or
\* raised exc; writes are the files it wrote, in order; launched/closed say
\* whether a browser process was started and whether browser.close() ran.
Returned(ret, writes) ==
  [raised |-> FALSE, exc |-> "", ret |-> ret, writes |-> writes,
   launched |-> FALSE, closed |-> FALSE]
Raised(exc, writes) ==
  [raised |-> TRUE, exc |-> exc, ret |-> JNull, writes |-> writes,
   launched |-> FALSE, closed |-> FALSE]

(***************************************************************************)
(* answer_questions(code): src/main.py 54-75.  proc is what subprocess.run *)
(* captured: [returncode, stdout, stderr].                                 *)
(***************************************************************************)
\* mutant: the payload embeds the output stream instead of the error stream
CodeFailedPayload_Stdout(proc) ==
  Dumps(JObj(<<KV(S_error, JStr(S_code_failed)), KV(S_stderr, JStr(proc.stdout))>>))

CodeFailedPayload(proc) ==
  Dumps(JObj(<<KV(S_error, JStr(S_code_failed)), KV(S_stderr, JStr(proc.stderr))>>))

\* mutant: the emptiness test without strip()
CodeFailedNoStdout_NoStrip(proc) ==
  proc.returncode # 0 /\ proc.stdout = <<>>

CodeFailedNoStdout(proc) ==
  proc.returncode # 0 /\ Strip(proc.stdout) = <<>>

answer_questions(code, proc) ==
  LET w == <<[path |-> TEMP_SCRIPT_PATH, content |-> TextFile(code)]>> IN
  IF CodeFailedNoStdout(proc)
  THEN Returned(JStr(CodeFailedPayload(proc)), w)
  ELSE Returned(JStr(proc.stdout), w)

(***************************************************************************)
(* scrape_website(url, output_file): src/tools/scrape_website.py 7-37.     *)
(* env is what the outside world does during the call:                     *)
(*   http      "error" (client.get raised) or "ok"                         *)
(*   status, len, body   the response's status code, len(r.text), markup   *)
(*   fastWrite whether out.write_text succeeds on the fast path            *)
(*   browser   the first browser step that raises: "launch", "new_page",   *)
(*             "goto", "content", "write", or "none"                       *)
(*   html      the rendered markup page.content() returns                  *)
(***************************************************************************)
SIZE_THRESHOLD == 10000

\* mutant: the size test with >= in place of >
FastPathTaken_AtThreshold(env) ==
  env.http = "ok" /\ env.status = 200 /\ env.len >= SIZE_THRESHOLD

FastPathTaken(env) ==
  env.http = "ok" /\ env.status = 200 /\ env.len > SIZE_THRESHOLD

ScrapeResult(out, url, engine) ==
  JObj(<<KV(S_ok, JBool(TRUE)), KV(S_file, JStr(out)),
         KV(S_url, JStr(url)), KV(S_engine, JStr(engine))>>)

\* the browser fallback, lines 26-37
BrowserPath(url, out, env) ==
  CASE env.browser = "launch" ->
         Raised("PlaywrightError", <<>>)
    [] env.browser = "new_page" ->
         \* new_page() is called before the try: the finally does not run
         [Raised("PlaywrightError", <<>>) EXCEPT !.launched = TRUE]
    [] env.browser \in {"goto", "content"} ->
         [Raised("PlaywrightError", <<>>) EXCEPT !.launched = TRUE, !.closed = TRUE]
    [] env.browser = "write" ->
         [Raised("OSError", <<>>) EXCEPT !.launched = TRUE, !.closed = TRUE]
    [] OTHER ->
         [Returned(ScrapeResult(out, url, S_playwright),
                   <<[path |-> out, content |-> HtmlFile(env.html)]>>)
            EXCEPT !.launched = TRUE, !.closed = TRUE]

scrape_website(url, output_file, env) ==
  IF FastPathTaken(env) /\ env.fastWrite
  THEN Returned(ScrapeResult(output_file, url, S_httpx),
                <<[path |-> output_file, content |-> HtmlFile(env.body)]>>)
  ELSE BrowserPath(url, output_file, env)

(***************************************************************************)
(* get_relevant_data(file_name, js_selector):                              *)
(* src/tools/get_relevant_data.py 11-27.  js_selector is a value: a str or *)
(* None.  A selector is ".c" (class c), "p" (every element is a <p>) or    *)
(* malformed (soup.select raises).                                         *)
(***************************************************************************)
SelectorValid(sel) ==
  \/ sel = <<"p">>
  \/ Len(sel) = 2 /\ sel[1] = "." /\ sel[2] \notin {".", "!", " "}

Matches(el, sel) ==
  IF sel = <<"p">> THEN TRUE ELSE el.cls = <<sel[2]>>

\* mutant: the matches collected last first
RECURSIVE Select_Reversed(_, _)
Select_Reversed(els, sel) ==
  IF els = <<>> THEN <<>>
  ELSE IF Matches(Head(els), sel)
  THEN Select_Reversed(Tail(els), sel) \o <<Head(els)>>
  ELSE Select_Reversed(Tail(els), sel)

\* soup.select(sel): the matching elements in document order
RECURSIVE Select(_, _)
Select(els, sel) ==
  IF els = <<>> THEN <<>>
  ELSE IF Matches(Head(els), sel) THEN <<Head(els)>> \o Select(Tail(els), sel)
  ELSE Select(Tail(els), sel)

\* the text strings of a parsed file: one per element, or the whole text
FileStrings(f) ==
  IF f.kind = "html" THEN [j \in 1..Len(f.els) |-> f.els[j].text] ELSE <<f.s>>
FileElems(f) == IF f.kind = "html" THEN f.els ELSE <<>>

\* get_text(separator=sep, strip=True) over strings: each stripped, the
\* empty ones dropped, joined by sep
RECURSIVE JoinStripped(_, _)
JoinStripped(strs, sep) ==
  IF strs = <<>> THEN <<>>
  ELSE LET h == Strip(Head(strs))
           r == JoinStripped(Tail(strs), sep)
       IN IF h = <<>> THEN r
          ELSE IF r = <<>> THEN h
          ELSE h \o sep \o r

\* bool(v) of a Python value, as `if js_selector:` tests it
Truthy(v) ==
  CASE v.t = "null" -> FALSE
    [] v.t = "bool" -> v.b
    [] v.t = "num"  -> v.n # 0
    [] v.t = "str"  -> v.s # <<>>
    [] v.t = "arr"  -> v.a # <<>>
    [] v.t = "obj"  -> v.o # <<>>

get_relevant_data(file_name, js_selector, files) ==
  LET f == IF file_name \in DOMAIN files THEN files[file_name] ELSE NoFile IN
  IF f.kind = "none" THEN Raised("FileNotFoundError", <<>>)
  ELSE IF Truthy(js_selector) THEN
    IF js_selector.t # "str" THEN Raised("TypeError", <<>>)   \* select of a non-str
    ELSE IF ~SelectorValid(js_selector.s) THEN Raised("SelectorSyntaxError", <<>>)
    ELSE LET els == Select(FileElems(f), js_selector.s) IN
         Returned(JObj(<<
           KV(S_data, JArr([j \in 1..Len(els) |->
                              JStr(JoinStripped(<<els[j].text>>, <<>>))])),
           KV(S_count, JNum(Len(els))),
           KV(S_selector, js_selector)>>), <<>>)
  ELSE Returned(JObj(<<KV(S_data, JStr(JoinStripped(FileStrings(f), <<" ">>)))>>),
                <<>>)

(***************************************************************************)
(* Dispatcher: _parse_args (src/main.py 163-173), _call_tool (176-202)     *)
(***************************************************************************)
N_scrape_website == <<"s", "c", "r", "a", "p", "e", "_", "w", "e", "b", "s", "i", "t", "e">>
N_get_relevant_data == <<"g", "e", "t", "_", "r", "e", "l", "e", "v", "a", "n", "t", "_", "d", "a", "t", "a">>
N_answer_questions == <<"a", "n", "s", "w", "e", "r", "_", "q", "u", "e", "s", "t", "i", "o", "n", "s">>
ToolNames == {N_scrape_website, N_get_relevant_data, N_answer_questions}

EmptyDict == JObj(<<>>)

\* raw is tc["function"].get("arguments"): None, a dict or a str
_parse_args(raw) ==
  CASE raw.t = "null" -> EmptyDict
    [] raw.t = "obj"  -> raw
    [] raw.t = "str"  -> LET r == Loads(raw.s) IN IF r.ok THEN r.v ELSE EmptyDict
    [] OTHER          -> EmptyDict

\* f(**args) binds: every key names a parameter, every required one is given
BindOk(args, params, required) ==
  /\ DictKeys(args) \subseteq params
  /\ required \subseteq DictKeys(args)

ArgOr(args, key, default) ==
  IF key \in DictKeys(args) THEN DictGet(args, key) ELSE default

UnknownToolPayload(name) ==
  Dumps(JObj(<<KV(S_ok, JBool(FALSE)), KV(S_error, JStr(UnknownToolText(name)))>>))

\* a tool function's result as _call_tool's: out is the str it returns
Dispatched(r, out, invoked) ==
  [raised |-> r.raised, exc |-> r.exc, out |-> out, writes |-> r.writes,
   launched |-> r.launched, closed |-> r.closed, invoked |-> invoked]

NotInvoked(exc) == Dispatched(Raised(exc, <<>>), <<>>, "none")

CallScrape(args, fx) ==
  IF ~BindOk(args, {S_url, S_output_file, S_wait_until, S_timeout_ms}, {S_url})
  THEN NotInvoked("TypeError")
  ELSE LET r == scrape_website(DictGet(args, S_url).s,
                               ArgOr(args, S_output_file, JStr(DEFAULT_OUTPUT_FILE)).s,
                               fx.scrape)
       IN Dispatched(r, IF r.raised THEN <<>> ELSE Dumps(r.ret), "scrape_website")

CallExtract(args, files) ==
  IF ~BindOk(args, {S_file_name, S_js_selector}, {S_file_name})
  THEN NotInvoked("TypeError")
  ELSE LET r == get_relevant_data(DictGet(args, S_file_name).s,
                                  ArgOr(args, S_js_selector, JNull), files)
       IN Dispatched(r, IF r.raised THEN <<>> ELSE Dumps(r.ret), "get_relevant_data")

CallRunner(args, fx) ==
  IF ~BindOk(args, {S_code}, {S_code})
  THEN NotInvoked("TypeError")
  ELSE IF DictGet(args, S_code).t # "str"
  THEN NotInvoked("TypeError")             \* write_text of a non-str
  ELSE LET r == answer_questions(DictGet(args, S_code).s, fx.proc)
       IN Dispatched(r, r.ret.s, "answer_questions")

\* args is what _parse_args returned; fx is the outside world during the call
_call_tool(name, args, fx, files) ==
  IF args.t # "obj"
  THEN NotInvoked("AttributeError")        \* args.items(), line 183, before the try
  ELSE CASE name = N_scrape_website    -> CallScrape(args, fx)
         [] name = N_get_relevant_data -> CallExtract(args, files)
         [] name = N_answer_questions  -> CallRunner(args, fx)
         [] OTHER -> Dispatched(Returned(JNull, <<>>), UnknownToolPayload(name), "none")

\* the files after the writes of a call, applied in order
RECURSIVE ApplyWrites(_, _)
ApplyWrites(files, writes) ==
  IF writes = <<>> THEN files
  ELSE LET w == Head(writes)
           f2 == [p \in DOMAIN files \cup {w.path} |->
                    IF p = w.path THEN w.content ELSE files[p]]
       IN ApplyWrites(f2, Tail(writes))

(***************************************************************************)
(* Bounds and input sets                                                   *)
(***************************************************************************)
MaxDispatch == 2      \* tool calls in one execution
MaxClock == 2         \* the clock stops advancing here
Budget == 1           \* TOOL_LOOP_BUDGET, in clock units
MaxContentLen == 3    \* characters of the first reply's content

Durations == {0, 1}
\* whether the debug copy of the raw response can be written: explored
\* failing for the first reply only
SaveOutcomes(i) == IF i = 1 THEN BOOLEAN ELSE {TRUE}

RECURSIVE SeqsUpTo(_, _)
SeqsUpTo(S, n) ==
  IF n = 0 THEN {<<>>}
  ELSE LET shorter == SeqsUpTo(S, n - 1) IN
       shorter \cup {Append(q, c) : q \in {r \in shorter : Len(r) = n - 1}, c \in S}

\* msg.get("content"), None or a str: every short string for the first
\* reply, a sample of them for the later ones
ContentAlphabet == {" ", "[", "]", "1", ",", "{", "}"}
FirstContents == {JNull} \cup {JStr(q) : q \in SeqsUpTo(ContentAlphabet, MaxContentLen)}
LaterContents ==
  { JNull, JStr(<<" ", "[", "1", "]", "\n">>), JStr(<<"{", "}">>), JStr(<<"[", "1", ",">>) }

N_foo == <<"f", "o", "o">>
P_f == <<"f">>
U_u == <<"u">>
Page1 == <<Elem(<<"x">>, <<"A">>), Elem(<<"y">>, <<" ", "B">>)>>

\* tc["function"]: the name and the arguments (None, a dict or a str) the
\* model may send
A_scrape == JStr(Dumps(JObj(<<KV(S_url, JStr(U_u)), KV(S_output_file, JStr(P_f))>>)))
A_extract == JStr(Dumps(JObj(<<KV(S_file_name, JStr(P_f)), KV(S_js_selector, JStr(<<".", "x">>))>>)))
A_code == JStr(Dumps(JObj(<<KV(S_code, JStr(<<"c">>))>>)))
A_unparsable == JStr(<<"{", "b", "a", "d">>)
A_list == JStr(<<"[", "1", "]">>)
Functions ==
  { [name |-> N_scrape_website,    arguments |-> A_scrape],
    [name |-> N_get_relevant_data, arguments |-> A_extract],
    [name |-> N_answer_questions,  arguments |-> A_code],
    [name |-> N_answer_questions,  arguments |-> A_unparsable],
    [name |-> N_foo,               arguments |-> JNull],
    [name |-> N_foo,               arguments |-> A_list] }

\* the ids of a reply's tool calls: distinct, starting anywhere in the pool
IdPool == << <<"a">>, <<"b">>, <<"c">>, <<"d">> >>
IdOffsets == {0, 1}

NoProc == [returncode |-> 0, stdout |-> <<>>, stderr |-> <<>>]
NoScrape == [http |-> "error", status |-> 0, len |-> 0, body |-> <<>>,
             fastWrite |-> TRUE, browser |-> "launch", html |-> <<>>]

LoopProcs ==
  { [returncode |-> 0, stdout |-> <<"[", "1", "]", "\n">>, stderr |-> <<>>],
    [returncode |-> 1, stdout |-> <<>>, stderr |-> <<"e">>] }
LoopScrapes ==
  { [http |-> "ok", status |-> 200, len |-> SIZE_THRESHOLD + 1, body |-> Page1,
     fastWrite |-> TRUE, browser |-> "none", html |-> Page1],
    [http |-> "error", status |-> 0, len |-> 0, body |-> <<>>,
     fastWrite |-> TRUE, browser |-> "goto", html |-> <<>>] }

\* what the outside world may do during a call of the named tool
LoopEnvs(name) ==
  CASE name = N_scrape_website   -> {[scrape |-> e, proc |-> NoProc] : e \in LoopScrapes}
    [] name = N_answer_questions -> {[scrape |-> NoScrape, proc |-> p] : p \in LoopProcs}
    [] OTHER                     -> {[scrape |-> NoScrape, proc |-> NoProc]}

ToolCall(id, f) == [id |-> id, name |-> f.name, arguments |-> f.arguments]
\* the replies with n tool calls
Replies(n) ==
  { [j \in 1..n |-> ToolCall(IdPool[j + off], fs[j])] :
      off \in IdOffsets, fs \in [1..n -> Functions] }

(***************************************************************************)
(* run_agent_for_api (src/main.py 205-247) and _chat (131-160)             *)
(***************************************************************************)
DEFAULT_PROMPT == <<"You are an execution agent. ...">>
FILE_PROMPT == <<"(prompts/executor.txt)">>
S_plan_sep == <<"\n", "\n", "P", "l", "a", "n", ":", "\n">>
S_return_only == <<"\n", "\n", "R", "e", "t", "u", "r", "n", " ", "O", "N", "L", "Y", " ", "t", "h", "e", " ", "J", "S", "O", "N", " ", "a", "r", "r", "a", "y", ".">>
GPT_RESP_PATH == <<"outputs/gpt_response.json">>

\* the requests explored: task, plan, whether prompts/executor.txt exists
Requests ==
  { [task |-> <<"t">>, plan |-> <<>>, promptFile |-> FALSE],
    [task |-> <<"q", "?">>, plan |-> <<"p">>, promptFile |-> TRUE] }

_system_prompt(promptFile) == IF promptFile THEN FILE_PROMPT ELSE DEFAULT_PROMPT

SystemMsg(content) == [role |-> "system", content |-> content]
UserMsg(content) == [role |-> "user", content |-> content]
AssistantMsg(tcs) == [role |-> "assistant", content |-> JNull, tool_calls |-> tcs]
\* mutant: the tool message is built without the id of the call it answers
ToolMsg_NoId(id, out) == [role |-> "tool", tool_call_id |-> <<>>, content |-> out]
ToolMsg(id, out) == [role |-> "tool", tool_call_id |-> id, content |-> out]

SeedMessages(rq) ==
  << SystemMsg(_system_prompt(rq.promptFile)),
     UserMsg(rq.task \o S_plan_sep \o rq.plan \o S_return_only) >>

NoResult == [t |-> "unset"]
NoMsg == [content |-> JNull, tool_calls |-> <<>>, none |-> TRUE]
NoCall == [k |-> 0]
NoApp == [phase |-> "none"]
NoConc == [mode |-> "none"]

VARIABLES
  request,      \* the task and plan of this execution
  hasKey,       \* OPENAI_API_KEY is set
  pc,           \* "check" | "chat" | "tools" | "returned" | "failed"
  messages,     \* the conversation
  msg,          \* the last message _chat returned
  tool_calls,   \* the tool calls of msg
  tc_idx,       \* the index in tool_calls of the call to dispatch next
  iter_no,
  start, now,   \* time.time() at line 216, and now
  result,       \* the value returned
  error,        \* the exception raised
  files,        \* the file system: path -> file
  sent,         \* the conversations passed to the gateway, in order
  netCalls,     \* requests posted to the model API
  dispatched,   \* calls of _call_tool
  call,         \* the last call of _call_tool and its outcome
  app,          \* the front door's handling of the request (src/app.py)
  conc          \* two requests served at once: their states and the scheduler

vars == <<request, hasKey, pc, messages, msg, tool_calls, tc_idx, iter_no,
          start, now, result, error, files, sent, netCalls, dispatched, call,
          app, conc>>

Init ==
  /\ request \in Requests
  /\ hasKey \in BOOLEAN
  /\ pc = "check"
  /\ messages = SeedMessages(request)
  /\ msg = NoMsg
  /\ tool_calls = <<>>
  /\ tc_idx = 0
  /\ iter_no = 0
  /\ start = 0
  /\ now = 0
  /\ result = NoResult
  /\ error = ""
  /\ files = <<>>
  /\ sent = <<>>
  /\ netCalls = 0
  /\ dispatched = 0
  /\ call = NoCall
  /\ app = NoApp
  /\ conc = NoConc

Elapsed == now - start
Advance(d) == IF now + d > MaxClock THEN MaxClock ELSE now + d

\* line 221-223: the budget is exceeded at the top of the loop
BudgetExceeded ==
  /\ pc = "check"
  /\ Elapsed > Budget
  /\ pc' = "failed"
  /\ error' = "TimeoutError"
  /\ UNCHANGED <<app, conc, request, hasKey, messages, msg, tool_calls, tc_idx, iter_no,
                 start, now, result, files, sent, netCalls, dispatched, call>>

\* mutant: the iteration begins without the budget test
BeginIteration_Unchecked ==
  /\ pc = "check"
  /\ iter_no' = iter_no + 1
  /\ pc' = "chat"
  /\ UNCHANGED <<app, conc, request, hasKey, messages, msg, tool_calls, tc_idx,
                 start, now, result, error, files, sent, netCalls, dispatched, call>>

\* line 221, 225: within budget, the iteration begins
BeginIteration ==
  /\ pc = "check"
  /\ ~(Elapsed > Budget)
  /\ iter_no' = iter_no + 1
  /\ pc' = "chat"
  /\ UNCHANGED <<app, conc, request, hasKey, messages, msg, tool_calls, tc_idx,
                 start, now, result, error, files, sent, netCalls, dispatched, call>>

\* mutant: the credential is looked at only after the request has been posted
ChatMissingKey_Late ==
  /\ pc = "chat"
  /\ ~hasKey
  /\ sent' = Append(sent, messages)
  /\ netCalls' = netCalls + 1
  /\ pc' = "failed"
  /\ error' = "RuntimeError"
  /\ UNCHANGED <<app, conc, request, hasKey, messages, msg, tool_calls, tc_idx, iter_no,
                 start, now, result, files, dispatched, call>>

\* _chat, line 133-135: no credential
ChatMissingKey ==
  /\ pc = "chat"
  /\ ~hasKey
  /\ sent' = Append(sent, messages)
  /\ pc' = "failed"
  /\ error' = "RuntimeError"
  /\ UNCHANGED <<app, conc, request, hasKey, messages, msg, tool_calls, tc_idx, iter_no,
                 start, now, result, files, netCalls, dispatched, call>>

\* mutant: a failed post is tried once more before the failure is raised
ChatUpstreamError_Retry ==
  /\ pc = "chat"
  /\ hasKey
  /\ \E d \in Durations : now' = Advance(d)
  /\ sent' = Append(sent, messages)
  /\ netCalls' = netCalls + 2
  /\ pc' = "failed"
  /\ error' = "HTTPError"
  /\ UNCHANGED <<app, conc, request, hasKey, messages, msg, tool_calls, tc_idx, iter_no,
                 start, result, files, dispatched, call>>

\* _chat, line 143-150: the post fails, or raise_for_status raises
ChatUpstreamError ==
  /\ pc = "chat"
  /\ hasKey
  /\ \E d \in Durations : now' = Advance(d)
  /\ sent' = Append(sent, messages)
  /\ netCalls' = netCalls + 1
  /\ pc' = "failed"
  /\ error' = "HTTPError"
  /\ UNCHANGED <<app, conc, request, hasKey, messages, msg, tool_calls, tc_idx, iter_no,
                 start, result, files, dispatched, call>>

\* the raw response saved for debugging, line 154-158 (a failed write is ignored)
ReplyJson(m) ==
  JObj(<<KV(<<"c", "o", "n", "t", "e", "n", "t">>, m.content),
         KV(<<"t", "o", "o", "l", "_", "c", "a", "l", "l", "s">>,
            JArr([j \in 1..Len(m.tool_calls) |->
                    JObj(<<KV(<<"i", "d">>, JStr(m.tool_calls[j].id)),
                           KV(<<"n", "a", "m", "e">>, JStr(m.tool_calls[j].name)),
                           KV(<<"a", "r", "g", "u", "m", "e", "n", "t", "s">>,
                              m.tool_calls[j].arguments)>>)]))>>)

SaveRaw(fs, m, saveOk) ==
  IF saveOk
  THEN ApplyWrites(fs, <<[path |-> GPT_RESP_PATH, content |-> TextFile(Dumps(ReplyJson(m)))]>>)
  ELSE fs

\* line 229-239 on a reply without tool calls: the value returned, or the
\* parse failure
FinalText(m) == Strip(IF m.content.t = "str" THEN m.content.s ELSE <<>>)
\* mutant: the parsed value coerced to a list
FinalParse_AsList(m) ==
  LET r == Loads(FinalText(m)) IN
  IF r.ok /\ r.v.t # "arr" THEN POk(JArr(<<r.v>>), r.i) ELSE r
\* mutant: a reply that does not parse counts as an empty answer
FinalParse_Lenient(m) ==
  LET r == Loads(FinalText(m)) IN
  IF r.ok THEN r ELSE POk(JArr(<<>>), 1)

FinalParse(m) == Loads(FinalText(m))

\* _chat returns a message without tool calls: line 227-239
ChatFinal ==
  /\ pc = "chat"
  /\ hasKey
  /\ \E c \in (IF iter_no = 1 THEN FirstContents ELSE LaterContents),
        d \in Durations, saveOk \in SaveOutcomes(iter_no) :
       LET m == [content |-> c, tool_calls |-> <<>>] IN
       /\ now' = Advance(d)
       /\ msg' = m
       /\ files' = SaveRaw(files, m, saveOk)
       /\ IF FinalParse(m).ok
          THEN pc' = "returned" /\ result' = FinalParse(m).v /\ error' = error
          ELSE pc' = "failed" /\ error' = "JSONDecodeError" /\ result' = result
  /\ sent' = Append(sent, messages)
  /\ netCalls' = netCalls + 1
  /\ tool_calls' = <<>>
  /\ UNCHANGED <<app, conc, request, hasKey, messages, tc_idx, iter_no, start, dispatched, call>>

\* mutant: the conversation is compacted to the seed before the assistant
\* message is appended
ChatToolCalls_Compact ==
  /\ pc = "chat"
  /\ hasKey
  /\ \E n \in 1..(MaxDispatch - dispatched), d \in Durations, saveOk \in SaveOutcomes(iter_no) :
       /\ \E tcs \in Replies(n) :
            LET m == [content |-> JNull, tool_calls |-> tcs] IN
            /\ msg' = m
            /\ files' = SaveRaw(files, m, saveOk)
            /\ tool_calls' = tcs
            /\ messages' = Append(SubSeq(messages, 1, 2), AssistantMsg(tcs))
       /\ now' = Advance(d)
  /\ sent' = Append(sent, messages)
  /\ netCalls' = netCalls + 1
  /\ tc_idx' = 1
  /\ pc' = "tools"
  /\ UNCHANGED <<app, conc, request, hasKey, iter_no, start, result, error, dispatched, call>>

\* _chat returns a message with tool calls: line 227-242
ChatToolCalls ==
  /\ pc = "chat"
  /\ hasKey
  /\ \E n \in 1..(MaxDispatch - dispatched), d \in Durations, saveOk \in SaveOutcomes(iter_no) :
       /\ \E tcs \in Replies(n) :
            LET m == [content |-> JNull, tool_calls |-> tcs] IN
            /\ msg' = m
            /\ files' = SaveRaw(files, m, saveOk)
            /\ tool_calls' = tcs
            /\ messages' = Append(messages, AssistantMsg(tcs))
       /\ now' = Advance(d)
  /\ sent' = Append(sent, messages)
  /\ netCalls' = netCalls + 1
  /\ tc_idx' = 1
  /\ pc' = "tools"
  /\ UNCHANGED <<app, conc, request, hasKey, iter_no, start, result, error, dispatched, call>>

\* the number of tool messages at the end of the conversation
RECURSIVE TrailingResults(_)
TrailingResults(ms) ==
  IF ms # <<>> /\ ms[Len(ms)].role = "tool"
  THEN 1 + TrailingResults(SubSeq(ms, 1, Len(ms) - 1))
  ELSE 0

\* mutant: a call that raises is answered with an error payload and the loop
\* goes on
ToolStep_Swallow ==
  /\ pc = "tools"
  /\ tc_idx <= Len(tool_calls)
  /\ LET tc == tool_calls[tc_idx]
         name == tc.name
         args == _parse_args(tc.arguments)
     IN \E fx \in LoopEnvs(name), d \in Durations :
          LET r == _call_tool(name, args, fx, files) IN
          /\ call' = [k |-> tc_idx, id |-> tc.id, name |-> name, args |-> args,
                      fx |-> fx, results |-> TrailingResults(messages),
                      hadFile |-> P_f \in DOMAIN files, r |-> r]
          /\ files' = ApplyWrites(files, r.writes)
          /\ now' = Advance(d)
          /\ messages' = Append(messages,
                 ToolMsg(tc.id, IF r.raised THEN UnknownToolPayload(name) ELSE r.out))
          /\ tc_idx' = tc_idx + 1
          /\ pc' = IF tc_idx = Len(tool_calls) THEN "check" ELSE "tools"
          /\ error' = error
  /\ dispatched' = dispatched + 1
  /\ UNCHANGED <<app, conc, request, hasKey, msg, tool_calls, iter_no, start, result,
                 sent, netCalls>>

\* mutant: the budget is tested again before every tool call
ToolStep_Preempt ==
  /\ pc = "tools"
  /\ tc_idx <= Len(tool_calls)
  /\ IF now - start > Budget
     THEN /\ pc' = "failed"
          /\ error' = "TimeoutError"
          /\ UNCHANGED <<messages, tc_idx, call, files, now, dispatched>>
     ELSE /\ LET tc == tool_calls[tc_idx]
                 name == tc.name
                 args == _parse_args(tc.arguments)
             IN \E fx \in LoopEnvs(name), d \in Durations :
                  LET r == _call_tool(name, args, fx, files) IN
                  /\ call' = [k |-> tc_idx, id |-> tc.id, name |-> name, args |-> args,
                              fx |-> fx, results |-> TrailingResults(messages),
                              hadFile |-> P_f \in DOMAIN files, r |-> r]
                  /\ files' = ApplyWrites(files, r.writes)
                  /\ now' = Advance(d)
                  /\ IF r.raised
                     THEN /\ pc' = "failed"
                          /\ error' = r.exc
                          /\ UNCHANGED <<messages, tc_idx>>
                     ELSE /\ messages' = Append(messages, ToolMsg(tc.id, r.out))
                          /\ tc_idx' = tc_idx + 1
                          /\ pc' = IF tc_idx = Len(tool_calls) THEN "check" ELSE "tools"
                          /\ error' = error
          /\ dispatched' = dispatched + 1
  /\ UNCHANGED <<app, conc, request, hasKey, msg, tool_calls, iter_no, start, result,
                 sent, netCalls>>

\* line 243-247: one pass of the for loop
ToolStep ==
  /\ pc = "tools"
  /\ tc_idx <= Len(tool_calls)
  /\ LET tc == tool_calls[tc_idx]
         name == tc.name
         args == _parse_args(tc.arguments)
     IN \E fx \in LoopEnvs(name), d \in Durations :
          LET r == _call_tool(name, args, fx, files) IN
          /\ call' = [k |-> tc_idx, id |-> tc.id, name |-> name, args |-> args,
                      fx |-> fx, results |-> TrailingResults(messages),
                      hadFile |-> P_f \in DOMAIN files, r |-> r]
          /\ files' = ApplyWrites(files, r.writes)
          /\ now' = Advance(d)
          /\ IF r.raised
             THEN /\ pc' = "failed"
                  /\ error' = r.exc
                  /\ UNCHANGED <<messages, tc_idx>>
             ELSE /\ messages' = Append(messages, ToolMsg(tc.id, r.out))
                  /\ tc_idx' = tc_idx + 1
                  /\ pc' = IF tc_idx = Len(tool_calls) THEN "check" ELSE "tools"
                  /\ error' = error
  /\ dispatched' = dispatched + 1
  /\ UNCHANGED <<app, conc, request, hasKey, msg, tool_calls, iter_no, start, result,
                 sent, netCalls>>

Next ==
  \/ BudgetExceeded
  \/ BeginIteration
  \/ ChatMissingKey
  \/ ChatUpstreamError
  \/ ChatFinal
  \/ ChatToolCalls
  \/ ToolStep

Spec == Init /\ [][Next]_vars

(***************************************************************************)
(* The executions in which every model call returns and the clock          *)
(* advances: the credential is set, the gateway does not fail, a model     *)
(* call takes at least one clock unit.  The coroutine, once started, keeps *)
(* running: weak fairness of each of its steps.  A model call that returns *)
(* is enabled exactly when pc = "chat" (a final reply is always possible   *)
(* and the clock is below MaxClock there), and a pass of the for loop is   *)
(* enabled exactly when pc = "tools" (a tool call is then pending and the  *)
(* outside world has an outcome for it), so the weak fairness of these two *)
(* is written with those state predicates in place of ENABLED.             *)
(***************************************************************************)
InitLive == Init /\ hasKey = TRUE

NextLive ==
  \/ BudgetExceeded
  \/ BeginIteration
  \/ ChatFinal /\ now' > now
  \/ ChatToolCalls /\ now' > now
  \/ ToolStep

SpecLive ==
  /\ InitLive
  /\ [][NextLive]_vars
  /\ WF_vars(BudgetExceeded)
  /\ WF_vars(BeginIteration)
  /\ ([]<>(pc # "chat") \/ []<><<(ChatFinal \/ ChatToolCalls) /\ now' > now>>_vars)
  /\ ([]<>(pc # "tools") \/ []<><<ToolStep>>_vars)

(***************************************************************************)
(* The front door: _handle_upload (src/app.py 111-158) with the planner    *)
(* (plan_with_gemini, 67-97) and the executor it awaits.  app is           *)
(*   phase   "upload" | "plan" | "start" | "exec" | "done"                 *)
(*   text    the uploaded task, decoded                                    *)
(*   gemini  GEMINI_API_KEY is set                                         *)
(*   asyncioTimeoutIsBuiltin  asyncio.TimeoutError is the builtin          *)
(*           TimeoutError (true of Python 3.11 and later, false before)    *)
(*   plan    the planner's plan                                            *)
(*   planCalls  requests sent to the planner's model                       *)
(*   status  the HTTP status answered, 0 before the answer                 *)
(* The model's clock starts with the executor; the deadline of             *)
(* asyncio.wait_for (EXECUTOR_TIMEOUT, 1700 s against a loop budget of     *)
(* 110 s) lies beyond the clock values explored.                           *)
(***************************************************************************)
PLAN_FILE == <<"outputs/planner_breaked_task.txt">>
UploadTexts == {<<"q", "?">>, <<" ", "\n">>}
\* resp.text of the planner's reply
PlannerTexts == {JStr(<<" ", "p", "\n">>)}

InitApp ==
  /\ request = [task |-> <<>>, plan |-> <<>>, promptFile |-> FALSE]
  /\ hasKey \in BOOLEAN
  /\ pc = "idle"
  /\ messages = <<>>
  /\ msg = NoMsg
  /\ tool_calls = <<>>
  /\ tc_idx = 0
  /\ iter_no = 0
  /\ start = 0
  /\ now = 0
  /\ result = NoResult
  /\ error = ""
  /\ files = <<>>
  /\ sent = <<>>
  /\ netCalls = 0
  /\ dispatched = 0
  /\ call = NoCall
  /\ app \in [phase : {"upload"}, text : {<<>>}, gemini : BOOLEAN,
              asyncioTimeoutIsBuiltin : BOOLEAN, plan : {<<>>},
              planCalls : {0}, status : {0}]
  /\ conc = NoConc

LoopUnchanged ==
  UNCHANGED <<request, hasKey, pc, messages, msg, tool_calls, tc_idx, iter_no,
              start, now, result, error, sent, netCalls, dispatched, call, conc>>

\* line 119-128: the upload is read and decoded; an empty task is refused
ReceiveUpload ==
  /\ app.phase = "upload"
  /\ \E text \in UploadTexts :
       IF Strip(text) = <<>>
       THEN app' = [app EXCEPT !.phase = "done", !.status = 400]
       ELSE app' = [app EXCEPT !.phase = "plan", !.text = text]
  /\ UNCHANGED files
  /\ LoopUnchanged

\* line 131-138 with plan_with_gemini, 67-97: a missing key or prompt file
\* raises before the request is sent; a failed request raises; every failure
\* is answered 500; the plan returned is stripped and saved
PlanWithGemini ==
  /\ app.phase = "plan"
  /\ IF ~app.gemini
     THEN /\ app' = [app EXCEPT !.phase = "done", !.status = 500]
          /\ UNCHANGED files
     ELSE \E outcome \in {"prompt_missing", "failed", "ok"} :
            CASE outcome = "prompt_missing" ->
                   /\ app' = [app EXCEPT !.phase = "done", !.status = 500]
                   /\ UNCHANGED files
              [] outcome = "failed" ->
                   /\ app' = [app EXCEPT !.phase = "done", !.status = 500,
                                         !.planCalls = @ + 1]
                   /\ UNCHANGED files
              [] outcome = "ok" ->
                   \E t \in PlannerTexts :
                     LET plan == Strip(IF t.t = "str" THEN t.s ELSE <<>>) IN
                     /\ app' = [app EXCEPT !.phase = "start", !.plan = plan,
                                           !.planCalls = @ + 1]
                     /\ files' = ApplyWrites(files,
                                    <<[path |-> PLAN_FILE, content |-> TextFile(plan)]>>)
  /\ LoopUnchanged

\* line 141-148 and src/main.py 205-218: run_agent_for_api(text, plan) is
\* awaited; it seeds the conversation and reads the clock
StartExecutor ==
  /\ app.phase = "start"
  /\ app' = [app EXCEPT !.phase = "exec"]
  /\ request' = [task |-> app.text, plan |-> app.plan, promptFile |-> FALSE]
  /\ messages' = SeedMessages(request')
  /\ start' = now
  /\ iter_no' = 0
  /\ pc' = "check"
  /\ UNCHANGED <<hasKey, msg, tool_calls, tc_idx, now, result, error, files,
                 sent, netCalls, dispatched, call, conc>>

\* the status for an exception of run_agent_for_api, line 150-155: the
\* handler for asyncio.TimeoutError comes first, every other Exception is 500
StatusOfError(exc, timeoutIsBuiltin) ==
  IF exc = "TimeoutError" /\ timeoutIsBuiltin THEN 504 ELSE 500

\* line 149-158: the executor has returned or raised
Respond ==
  /\ app.phase = "exec"
  /\ pc \in {"returned", "failed"}
  /\ app' = [app EXCEPT !.phase = "done",
                        !.status = IF pc = "returned" THEN 200
                                   ELSE StatusOfError(error, app.asyncioTimeoutIsBuiltin)]
  /\ UNCHANGED files
  /\ LoopUnchanged

NextApp ==
  \/ ReceiveUpload
  \/ PlanWithGemini
  \/ StartExecutor
  \/ BudgetExceeded
  \/ BeginIteration
  \/ ChatMissingKey
  \/ ChatUpstreamError
  \/ ChatFinal
  \/ ChatToolCalls
  \/ ToolStep
  \/ Respond

SpecApp == InitApp /\ [][NextApp]_vars

(***************************************************************************)
(* Two requests served at once.  app.py 172-179 runs one uvicorn worker:   *)
(* one process, one event loop.  Each request is a coroutine               *)
(* run_agent_for_api (awaited through asyncio.wait_for, app.py 145-148)    *)
(* with its own locals messages, start, iter_no (main.py 212-218).  A      *)
(* coroutine holds the event loop until it awaits something that is not    *)
(* ready: _chat (a blocking httpx.Client), the fast path of scrape_website,*)
(* get_relevant_data and answer_questions (subprocess.run) never do; the   *)
(* browser path of scrape_website does, before the markup is written       *)
(* (launch, new_page, goto, content: scrape_website.py 29-33) and after it *)
(* (browser.close(), 37).  The file system and the clock are shared.       *)
(* conc.req[i] is the frame of request i, conc.cur the request holding the *)
(* event loop (0: none), conc.owner the request that last wrote each path, *)
(* conc.last the last tool call that used a file and whose file it was.    *)
(***************************************************************************)
MaxConcCalls == 3     \* tool calls of the two requests together

\* the markup the site serves for a url
PageOf(url) == IF url = U_u THEN Page1 ELSE <<Elem(<<"x">>, <<"C">>)>>
\* what request i is about: its task, the url it scrapes, the code it runs
ConcInput(i) ==
  IF i = 1 THEN [task |-> <<"t", "1">>, url |-> U_u, code |-> <<"c">>]
  ELSE [task |-> <<"t", "2">>, url |-> <<"v">>, code |-> <<"d">>]
\* the id of the k-th tool call the model requests of request i
ConcId(i, k) == (IF i = 1 THEN <<"a">> ELSE <<"b">>) \o NatChars(k)

\* the tool calls the model may request of request i: both requests name
\* the same markup path, and answer_questions has one fixed script path
ConcFunctions(i) ==
  { [name |-> N_scrape_website,
     arguments |-> JStr(Dumps(JObj(<<KV(S_url, JStr(ConcInput(i).url)),
                                     KV(S_output_file, JStr(P_f))>>)))],
    [name |-> N_get_relevant_data, arguments |-> A_extract],
    [name |-> N_answer_questions,
     arguments |-> JStr(Dumps(JObj(<<KV(S_code, JStr(ConcInput(i).code))>>)))] }

\* the outside world during a tool call: for scrape_website(url, ...) the
\* site serves a long static page (fast path) or a short one (browser
\* path); the script answer_questions runs prints its answer
ConcEnvs(name, args) ==
  CASE name = N_scrape_website ->
         LET page == PageOf(DictGet(args, S_url).s) IN
         { [scrape |-> [http |-> "ok", status |-> 200, len |-> n, body |-> page,
                        fastWrite |-> TRUE, browser |-> "none", html |-> page],
            proc |-> NoProc] : n \in {SIZE_THRESHOLD, SIZE_THRESHOLD + 1} }
    [] name = N_answer_questions ->
         {[scrape |-> NoScrape,
           proc |-> [returncode |-> 0, stdout |-> <<"[", "1", "]", "\n">>,
                     stderr |-> <<>>]]}
    [] OTHER -> {[scrape |-> NoScrape, proc |-> NoProc]}

NewFrame(i) ==
  [task |-> ConcInput(i).task, pc |-> "new", messages |-> <<>>, tool_calls |-> <<>>,
   tc_idx |-> 0, iter_no |-> 0, start |-> 0, calls |-> 0, fx |-> NoScrape,
   error |-> "", result |-> NoResult]

InitConc ==
  /\ request = [task |-> <<>>, plan |-> <<>>, promptFile |-> FALSE]
  /\ hasKey = TRUE
  /\ pc = "idle"
  /\ messages = <<>>
  /\ msg = NoMsg
  /\ tool_calls = <<>>
  /\ tc_idx = 0
  /\ iter_no = 0
  /\ start = 0
  /\ now = 0
  /\ result = NoResult
  /\ error = ""
  /\ files = <<>>
  /\ sent = <<>>
  /\ netCalls = 0
  /\ dispatched = 0
  /\ call = NoCall
  /\ app = NoApp
  /\ conc = [mode |-> "loop", cur |-> 0, req |-> [i \in {1, 2} |-> NewFrame(i)],
             owner |-> <<>>, last |-> [rid |-> 0]]

ConcUnchanged ==
  UNCHANGED <<request, hasKey, pc, messages, msg, tool_calls, tc_idx, iter_no,
              start, result, error, sent, netCalls, dispatched, call, app>>

\* mutant: the conversation is one list shared by the coroutines
AppendTo_Shared(reqs, i, m) ==
  [k \in DOMAIN reqs |-> [reqs[k] EXCEPT !.messages = Append(@, m)]]

\* messages.append(m), main.py 242 and 247, on the list created at 212
AppendTo(reqs, i, m) ==
  [reqs EXCEPT ![i].messages = Append(@, m)]

\* the owners after request i's writes
Owners(owner, i, writes) ==
  [p \in DOMAIN owner \cup {writes[k].path : k \in DOMAIN writes} |->
     IF \E k \in DOMAIN writes : writes[k].path = p THEN i ELSE owner[p]]

\* conc.last after request i's tool call with outcome r: the file the call
\* read (the markup get_relevant_data opens) or ran (the script
\* answer_questions starts) and its last writer, the call's own writes
\* included
LastUse(i, r, args, owner) ==
  LET p == CASE r.invoked = "get_relevant_data" -> DictGet(args, S_file_name).s
             [] r.invoked = "answer_questions"  -> TEMP_SCRIPT_PATH
             [] OTHER -> <<>>
  IN
  IF p = <<>> THEN conc.last
  ELSE [rid |-> i, invoked |-> r.invoked, path |-> p,
        src |-> IF p \in DOMAIN owner THEN owner[p] ELSE 0, out |-> r.out]

\* app.py 145-148, main.py 205-218: the request's coroutine starts; request
\* 1 is the one that starts first
ConcStart(i) ==
  /\ conc.cur = 0
  /\ conc.req[i].pc = "new"
  /\ i = 2 => conc.req[1].pc # "new"
  /\ conc' = [conc EXCEPT
       !.cur = i,
       !.req[i].messages = SeedMessages([task |-> conc.req[i].task, plan |-> <<>>,
                                         promptFile |-> FALSE]),
       !.req[i].start = now,
       !.req[i].pc = "check"]
  /\ UNCHANGED <<files, now>>
  /\ ConcUnchanged

\* main.py 221-223
ConcBudgetExceeded(i) ==
  /\ conc.cur = i
  /\ conc.req[i].pc = "check"
  /\ now - conc.req[i].start > Budget
  /\ conc' = [conc EXCEPT !.cur = 0, !.req[i].pc = "failed",
                          !.req[i].error = "TimeoutError"]
  /\ UNCHANGED <<files, now>>
  /\ ConcUnchanged

\* main.py 221, 225
ConcBeginIteration(i) ==
  /\ conc.cur = i
  /\ conc.req[i].pc = "check"
  /\ ~(now - conc.req[i].start > Budget)
  /\ conc' = [conc EXCEPT !.req[i].pc = "chat", !.req[i].iter_no = @ + 1]
  /\ UNCHANGED <<files, now>>
  /\ ConcUnchanged

\* main.py 227-239: the final reply "[1]"; _chat saves the raw response
ConcChatFinal(i) ==
  /\ conc.cur = i
  /\ conc.req[i].pc = "chat"
  /\ \E d \in Durations :
       LET m == [content |-> JStr(<<"[", "1", "]">>), tool_calls |-> <<>>]
           w == <<[path |-> GPT_RESP_PATH, content |-> TextFile(Dumps(ReplyJson(m)))]>>
       IN /\ now' = Advance(d)
          /\ files' = SaveRaw(files, m, TRUE)
          /\ conc' = [conc EXCEPT
               !.cur = 0,
               !.owner = Owners(@, i, w),
               !.req[i].pc = IF FinalParse(m).ok THEN "returned" ELSE "failed",
               !.req[i].result = IF FinalParse(m).ok THEN FinalParse(m).v ELSE @,
               !.req[i].error = IF FinalParse(m).ok THEN @ ELSE "JSONDecodeError"]
  /\ ConcUnchanged

\* main.py 227-229, 242: a reply requesting one tool
ConcChatToolCalls(i) ==
  /\ conc.cur = i
  /\ conc.req[i].pc = "chat"
  /\ conc.req[1].calls + conc.req[2].calls < MaxConcCalls
  /\ \E f \in ConcFunctions(i), d \in Durations :
       LET tcs == <<ToolCall(ConcId(i, conc.req[i].calls + 1), f)>>
           m == [content |-> JNull, tool_calls |-> tcs]
           w == <<[path |-> GPT_RESP_PATH, content |-> TextFile(Dumps(ReplyJson(m)))]>>
           reqs == AppendTo(conc.req, i, AssistantMsg(tcs))
       IN /\ now' = Advance(d)
          /\ files' = SaveRaw(files, m, TRUE)
          /\ conc' = [conc EXCEPT
               !.owner = Owners(@, i, w),
               !.req = [reqs EXCEPT ![i].tool_calls = tcs, ![i].tc_idx = 1,
                                    ![i].pc = "tools"]]
  /\ ConcUnchanged

\* request i's frame after its pending tool call ended with outcome r:
\* main.py 246-247 and the exception leaving run_agent_for_api
AfterCall(reqs, i, r) ==
  LET f == reqs[i]
      tc == f.tool_calls[f.tc_idx]
  IN IF r.raised
     THEN [reqs EXCEPT ![i].pc = "failed", ![i].error = r.exc, ![i].calls = @ + 1]
     ELSE [AppendTo(reqs, i, ToolMsg(tc.id, r.out)) EXCEPT
             ![i].tc_idx = @ + 1, ![i].calls = @ + 1,
             ![i].pc = IF f.tc_idx = Len(f.tool_calls) THEN "check" ELSE "tools"]

\* main.py 243-247: a tool call that runs without suspending, or
\* scrape_website reaching its first await (scrape_website.py 29)
ConcToolStep(i) ==
  /\ conc.cur = i
  /\ conc.req[i].pc = "tools"
  /\ LET f == conc.req[i]
         tc == f.tool_calls[f.tc_idx]
         args == _parse_args(tc.arguments)
     IN \E fx \in ConcEnvs(tc.name, args) :
          IF tc.name = N_scrape_website /\ ~FastPathTaken(fx.scrape)
          THEN /\ conc' = [conc EXCEPT !.cur = 0, !.req[i].pc = "await_page",
                                       !.req[i].fx = fx.scrape]
               /\ UNCHANGED files
          ELSE LET r == _call_tool(tc.name, args, fx, files) IN
               /\ files' = ApplyWrites(files, r.writes)
               /\ conc' = [conc EXCEPT
                    !.cur = IF r.raised THEN 0 ELSE i,
                    !.owner = Owners(@, i, r.writes),
                    !.last = LastUse(i, r, args, Owners(conc.owner, i, r.writes)),
                    !.req = AfterCall(@, i, r)]
  /\ UNCHANGED now
  /\ ConcUnchanged

\* the outcome of request i's suspended scrape_website call
PendingScrape(i) ==
  LET f == conc.req[i]
      tc == f.tool_calls[f.tc_idx]
  IN _call_tool(tc.name, _parse_args(tc.arguments),
                [scrape |-> f.fx, proc |-> NoProc], files)

\* scrape_website.py 33-37: the page has arrived; the markup is written and
\* browser.close() awaited
ConcScrapeWrite(i) ==
  /\ conc.cur = 0
  /\ conc.req[i].pc = "await_page"
  /\ LET r == PendingScrape(i) IN
     /\ files' = ApplyWrites(files, r.writes)
     /\ conc' = [conc EXCEPT !.owner = Owners(@, i, r.writes),
                             !.req[i].pc = "await_close"]
  /\ UNCHANGED now
  /\ ConcUnchanged

\* scrape_website.py 35-37, main.py 246-247: the browser is closed, the call
\* returns and the coroutine goes on
ConcScrapeEnd(i) ==
  /\ conc.cur = 0
  /\ conc.req[i].pc = "await_close"
  /\ LET r == PendingScrape(i) IN
     conc' = [conc EXCEPT !.cur = IF r.raised THEN 0 ELSE i,
                          !.req = AfterCall(@, i, r)]
  /\ UNCHANGED <<files, now>>
  /\ ConcUnchanged

NextConc ==
  \E i \in {1, 2} :
    \/ ConcStart(i)
    \/ ConcBudgetExceeded(i)
    \/ ConcBeginIteration(i)
    \/ ConcChatFinal(i)
    \/ ConcChatToolCalls(i)
    \/ ConcToolStep(i)
    \/ ConcScrapeWrite(i)
    \/ ConcScrapeEnd(i)

SpecConc == InitConc /\ [][NextConc]_vars

(***************************************************************************)
(* Properties of run_agent_for_api (Spec)                                  *)
(***************************************************************************)
AllWhitespace(str) == \A j \in 1..Len(str) : str[j] \in PyWhitespace

\* the str is a JSON object whose "error" is "code_failed"
IsFailurePayload(str) ==
  LET r == Loads(str) IN
  /\ r.ok
  /\ r.v.t = "obj"
  /\ DictGet(r.v, S_error) = JStr(S_code_failed)

IsFinalReply == msg # NoMsg /\ msg.tool_calls = <<>>
ContentText == IF msg.content.t = "str" THEN msg.content.s ELSE <<>>

\* C1: if the model's first reply carries no tool calls and its stripped
\* content is valid JSON, run_agent_for_api returns exactly the parsed value,
\* after exactly one model call and without dispatching any tool.
C1_FirstReplyJsonReturned ==
  (iter_no = 1 /\ IsFinalReply /\ Loads(Strip(ContentText)).ok) =>
    /\ pc = "returned"
    /\ result = Loads(Strip(ContentText)).v
    /\ error = ""
    /\ netCalls = 1 /\ Len(sent) = 1
    /\ dispatched = 0
    /\ messages = SeedMessages(request)

C1_Witness ==
  /\ pc = "returned" /\ iter_no = 1
  /\ msg.content = JStr(<<" ", "1", "\n">>) \/ msg.content = JStr(<<" ", "{", "}">>)
  /\ result \in {JNum(1), JObj(<<>>)}
  /\ request.plan # <<>>

\* the index of the next assistant message after j, or one past the end
NextAssistant(j) ==
  IF \E k \in (j + 1)..Len(messages) : messages[k].role = "assistant"
  THEN CHOOSE k \in (j + 1)..Len(messages) :
         /\ messages[k].role = "assistant"
         /\ \A l \in (j + 1)..(k - 1) : messages[l].role # "assistant"
  ELSE Len(messages) + 1

\* the k-th message after assistant message j answers its k-th tool call
AnswersInOrder(j, n) ==
  \A k \in 1..n :
    /\ messages[j + k].role = "tool"
    /\ messages[j + k].tool_call_id = messages[j].tool_calls[k].id

\* C2 as claimed: for every reply with tool calls, once the loop has left its
\* tool calls, the ToolResults appended after the assistant message equal the
\* ToolCallRequests in number and order, the k-th carrying the k-th id.
\* (Stated for the executions whose tool arguments all resolve to a mapping.)
C2_Original ==
  \A j \in 1..Len(messages) :
    (/\ messages[j].role = "assistant"
     /\ pc # "tools" \/ NextAssistant(j) <= Len(messages)
     /\ \A k \in 1..Len(messages[j].tool_calls) :
          _parse_args(messages[j].tool_calls[k].arguments).t = "obj") =>
      LET n == NextAssistant(j) - j - 1 IN
      /\ n = Len(messages[j].tool_calls)
      /\ AnswersInOrder(j, n)

\* C2 amended: the ToolResults appended after an assistant message answer its
\* ToolCallRequests in order, the k-th carrying the k-th id verbatim, and the
\* k-th call is dispatched only when k-1 results have been appended; they
\* equal the requests in number for every reply whose calls all returned; a
\* call that raises ends the execution with the results of the calls before
\* it only.
C2_ResultsAnswerRequestsInOrder ==
  /\ \A j \in 1..Len(messages) :
       messages[j].role = "assistant" =>
         LET n == NextAssistant(j) - j - 1
             last == NextAssistant(j) > Len(messages)
         IN /\ n <= Len(messages[j].tool_calls)
            /\ AnswersInOrder(j, n)
            /\ (last /\ pc = "tools") => messages[j].tool_calls = tool_calls
            /\ \/ n = Len(messages[j].tool_calls)
               \/ last /\ pc = "tools" /\ n = tc_idx - 1
               \/ last /\ pc = "failed" /\ call.r.raised /\ n = call.k - 1
  /\ \A j \in 1..Len(messages) :
       messages[j].role = "tool" => j > 2 /\ messages[j - 1].role \in {"assistant", "tool"}
  /\ call # NoCall => call.results = call.k - 1

C2_Witness ==
  /\ pc = "check"
  /\ Len(messages) = 5
  /\ messages[3].role = "assistant" /\ Len(messages[3].tool_calls) = 2
  /\ messages[4].tool_call_id = <<"b">> /\ messages[5].tool_call_id = <<"c">>
  /\ messages[3].tool_calls[1].id = <<"b">>

\* C3: if the time elapsed since the loop began exceeds the budget at the
\* start of an iteration, run_agent_for_api fails with Timeout there, and no
\* model call or tool dispatch follows in that execution.
C3_TimeoutAtIterationStart ==
  [][ /\ (pc = "check" /\ now - start > Budget) =>
           /\ pc' = "failed" /\ error' = "TimeoutError"
           /\ netCalls' = netCalls /\ sent' = sent /\ dispatched' = dispatched
           /\ result' = NoResult
      /\ pc = "failed" => (pc' = "failed" /\ netCalls' = netCalls /\ dispatched' = dispatched)
    ]_vars

C3_Witness ==
  /\ pc = "failed" /\ error = "TimeoutError"
  /\ iter_no >= 1 /\ netCalls = iter_no
  /\ now - start > Budget

\* C4: if a reply carries no tool calls and its stripped content is not
\* valid JSON, run_agent_for_api fails at once with the parse failure: no
\* value is returned, nothing is appended to the conversation, and no step
\* (no further model call) follows.
C4_MalformedFinalIsFatal ==
  (IsFinalReply /\ ~Loads(Strip(ContentText)).ok) =>
    /\ pc = "failed" /\ error = "JSONDecodeError"
    /\ result = NoResult
    /\ messages = sent[Len(sent)]
    /\ netCalls = iter_no /\ Len(sent) = iter_no
    /\ ~ENABLED Next

C4_Witness ==
  /\ pc = "failed" /\ error = "JSONDecodeError"
  /\ iter_no = 2
  /\ msg.content = JStr(<<"[", "1", ",">>)
  /\ Len(messages) > 2

\* the str is a JSON object whose "ok" is false and whose "error" is a text
IsNotOkPayload(str) ==
  LET r == Loads(str) IN
  /\ r.ok
  /\ r.v.t = "obj"
  /\ DictGet(r.v, S_ok) = JBool(FALSE)
  /\ DictGet(r.v, S_error).t = "str"
  /\ DictGet(r.v, S_error).s # <<>>

\* C5 as claimed: a tool invocation that fails internally never terminates
\* run_agent_for_api; here for the fetch and extraction adapters: once one of
\* them has been invoked, the call does not raise and the execution has not
\* failed with its error.
C5_Original ==
  (call # NoCall /\ call.r.invoked \in {"scrape_website", "get_relevant_data"}) =>
    ~call.r.raised

\* C5 amended: a tool invocation that reports its failure as data (generated
\* code that exits non-zero without output: the code_failed payload; an
\* unknown tool name with arguments that resolve to a mapping: the ok = false
\* payload) has that JSON payload appended as its ToolResult and the loop goes
\* on to the next tool call or model call; a tool invocation that raises (the
\* fetch or extraction adapter raising, arguments that do not bind) is
\* re-raised by _call_tool and terminates run_agent_for_api with that
\* exception, no ToolResult being appended for it.
C5_FailuresAsDataOrRaised ==
  [][ dispatched' # dispatched =>
        LET c == call'
            tc == tool_calls[tc_idx]
        IN /\ c.k = tc_idx /\ c.id = tc.id /\ c.name = tc.name
           /\ IF c.r.raised
              THEN /\ pc' = "failed" /\ error' = c.r.exc
                   /\ messages' = messages
              ELSE /\ messages' = Append(messages, ToolMsg(tc.id, c.r.out))
                   /\ pc' = IF tc_idx < Len(tool_calls) THEN "tools" ELSE "check"
                   /\ error' = ""
           \* generated code crashed: data
           /\ (c.r.invoked = "answer_questions" /\ c.fx.proc.returncode # 0
                 /\ c.fx.proc.stdout = <<>>) =>
                (~c.r.raised /\ IsFailurePayload(c.r.out))
           \* unknown tool name, arguments a mapping: data
           /\ (c.name \notin ToolNames /\ c.args.t = "obj") =>
                (~c.r.raised /\ IsNotOkPayload(c.r.out))
           \* the adapters raise
           /\ (c.r.invoked = "get_relevant_data" /\ ~c.hadFile) => c.r.raised
           /\ (c.r.invoked = "scrape_website" /\ c.fx.scrape.http = "error"
                 /\ c.fx.scrape.browser # "none") => c.r.raised
    ]_vars

C5_Witness ==
  /\ pc = "failed" /\ error = "FileNotFoundError"
  /\ call.r.invoked = "get_relevant_data" /\ call.r.raised
  /\ call.k = 2
  /\ messages[Len(messages)].role = "tool"
  /\ IsFailurePayload(messages[Len(messages)].content)

\* C6 as claimed: for a tool name outside the fixed set and any arguments,
\* _call_tool returns a JSON payload with ok = false and an error text instead
\* of raising, invokes none of the tool implementations, and the loop appends
\* the payload as the ToolResult and continues.
C6_UnknownToolIsData ==
  (call # NoCall /\ call.name \notin ToolNames) =>
    /\ ~call.r.raised
    /\ call.r.invoked = "none"
    /\ IsNotOkPayload(call.r.out)
    /\ ~(pc = "failed" /\ error = call.r.exc /\ call.r.exc # "")

\* C7 as claimed: whenever run_agent_for_api returns, the value is a JSON
\* array.
C7_ReturnsArray ==
  pc = "returned" => result.t = "arr"

\* the tool messages of the conversation
ToolMessages == {j \in 1..Len(messages) : messages[j].role = "tool"}

\* C14: every call of the gateway posts exactly one request; when the post
\* fails (transport failure or non-success status) run_agent_for_api fails at
\* once with that error: nothing is returned, the conversation is the one that
\* was sent, and no step (no model call, no tool call) follows.
C14_FailedModelCallIsFatal ==
  /\ netCalls = (IF hasKey THEN Len(sent) ELSE 0)
  /\ Len(sent) \in {iter_no, iter_no - 1}
  /\ (pc = "failed" /\ error = "HTTPError") =>
       /\ netCalls = iter_no
       /\ result = NoResult
       /\ messages = sent[Len(sent)]
       /\ iter_no = 1 => msg = NoMsg
       /\ dispatched = Cardinality(ToolMessages)
       /\ ~ENABLED Next

C14_Witness ==
  /\ pc = "failed" /\ error = "HTTPError"
  /\ iter_no = 2 /\ netCalls = 2
  /\ Len(messages) = 4 /\ messages[4].role = "tool"

IsPrefix(a, b) == Len(a) <= Len(b) /\ SubSeq(b, 1, Len(a)) = a

\* C15: in every state of an execution the conversation begins with the
\* system instruction and the user message it was seeded with; every step
\* leaves the conversation unchanged or appends to it; so every conversation
\* passed to the gateway extends every conversation passed before it, and the
\* current conversation extends them all.
C15_ConversationAppendOnly ==
  /\ [](/\ Len(messages) >= 2
        /\ messages[1] = SystemMsg(_system_prompt(request.promptFile))
        /\ messages[2] = UserMsg(request.task \o S_plan_sep \o request.plan \o S_return_only)
        /\ \A i \in 1..Len(sent) :
             /\ IsPrefix(sent[i], messages)
             /\ \A j \in i..Len(sent) : IsPrefix(sent[i], sent[j]))
  /\ [][IsPrefix(messages, messages') /\ request' = request]_vars

C15_Witness ==
  /\ Len(sent) = 2
  /\ Len(sent[1]) = 2 /\ Len(sent[2]) = 4
  /\ messages = sent[2]
  /\ messages[4].role = "tool"

\* C16: the time budget is tested at the start of an iteration and nowhere
\* else.  Every step out of the test either begins the iteration (within
\* budget) or raises Timeout (over budget); a model call is only entered
\* through the test; no step of the model call or of the tool calls raises
\* Timeout, whatever the elapsed time; and while tool calls of the reply are
\* pending the next one is dispatched and, when it returns, its ToolResult
\* appended, also when the budget has been exceeded meanwhile.
C16_BudgetTestedOncePerIteration ==
  /\ [](pc = "tools" => /\ tc_idx \in 1..Len(tool_calls)
                        /\ LoopEnvs(tool_calls[tc_idx].name) # {})
  /\ [][ /\ (error' = "TimeoutError" /\ error # "TimeoutError") =>
             (pc = "check" /\ now - start > Budget /\ iter_no' = iter_no)
         /\ (pc = "check" /\ pc' # "check") =>
             \/ pc' = "chat" /\ iter_no' = iter_no + 1 /\ now - start <= Budget
             \/ pc' = "failed" /\ error' = "TimeoutError" /\ now - start > Budget
         /\ (pc' = "chat" /\ pc # "chat") => pc = "check"
         /\ pc \in {"chat", "tools"} => iter_no' = iter_no
         /\ pc = "tools" =>
             /\ dispatched' = dispatched + 1
             /\ call'.k = tc_idx
             /\ ~call'.r.raised =>
                  messages' = Append(messages, ToolMsg(tool_calls[tc_idx].id, call'.r.out))
             /\ pc' = (IF call'.r.raised THEN "failed"
                       ELSE IF tc_idx < Len(tool_calls) THEN "tools" ELSE "check")
       ]_vars

C16_Witness ==
  /\ pc = "tools"
  /\ now - start > Budget
  /\ tc_idx = 2 /\ Len(tool_calls) = 2
  /\ TrailingResults(messages) = 1

\* the arguments of a tool call are a str that json.loads rejects
Unparsable(raw) == raw.t = "str" /\ ~Loads(raw.s).ok

\* C17 as claimed: for every tool call whose arguments cannot be parsed, the
\* loop resolves them to the empty mapping, dispatches the named tool with
\* it, appends a ToolResult carrying the call's id and the tool's output, and
\* continues with the next tool call or the next iteration.
C17_UnparsableArgumentsContinue ==
  [][ (dispatched' # dispatched /\ Unparsable(tool_calls[tc_idx].arguments)) =>
        /\ call'.name = tool_calls[tc_idx].name
        /\ call'.args = EmptyDict
        /\ ~call'.r.raised
        /\ messages' = Append(messages, ToolMsg(tool_calls[tc_idx].id, call'.r.out))
        /\ pc' = (IF tc_idx < Len(tool_calls) THEN "tools" ELSE "check")
    ]_vars

(***************************************************************************)
(* The tool functions on their own: each call draws its inputs and what    *)
(* the outside world does, and leaves its outcome in call.                 *)
(***************************************************************************)
InitProbe ==
  /\ request = [task |-> <<"t">>, plan |-> <<>>, promptFile |-> FALSE]
  /\ hasKey = TRUE
  /\ pc = "probe"
  /\ messages = <<>>
  /\ msg = NoMsg
  /\ tool_calls = <<>>
  /\ tc_idx = 0
  /\ iter_no = 0
  /\ start = 0
  /\ now = 0
  /\ result = NoResult
  /\ error = ""
  /\ files = <<>>
  /\ sent = <<>>
  /\ netCalls = 0
  /\ dispatched = 0
  /\ call = NoCall
  /\ app = NoApp
  /\ conc = NoConc

ProbeUnchanged ==
  UNCHANGED <<app, conc, request, hasKey, pc, messages, msg, tool_calls, tc_idx, iter_no,
              start, now, result, error, sent, netCalls, dispatched>>

Codes == {<<>>, <<"c">>, <<"x", "=", "1">>}
Stdouts == {<<>>, <<" ">>, <<"\n">>, <<"[", "1", "]", "\n">>, <<" ", "x">>}
Stderrs == {<<>>, <<"e">>, <<"\"", "\\", "\n">>}
Procs == [returncode : {0, 1, 2}, stdout : Stdouts, stderr : Stderrs]

\* one call of answer_questions
RunnerCall ==
  /\ pc = "probe"
  /\ \E code \in Codes, proc \in Procs :
       LET r == answer_questions(code, proc) IN
       /\ call' = [fn |-> "answer_questions", code |-> code, proc |-> proc, r |-> r]
       /\ files' = ApplyWrites(files, r.writes)
  /\ ProbeUnchanged

SpecRunner == InitProbe /\ [][RunnerCall]_vars

ScrapeEnvs ==
  [http : {"error", "ok"}, status : {200, 404},
   len : {0, SIZE_THRESHOLD - 1, SIZE_THRESHOLD, SIZE_THRESHOLD + 1},
   body : {Page1}, fastWrite : BOOLEAN,
   browser : {"none", "launch", "new_page", "goto", "content", "write"},
   html : {Page1}]

\* one call of scrape_website
ScrapeCall ==
  /\ pc = "probe"
  /\ \E url \in {U_u}, output_file \in {P_f, DEFAULT_OUTPUT_FILE}, env \in ScrapeEnvs :
       LET r == scrape_website(url, output_file, env) IN
       /\ call' = [fn |-> "scrape_website", url |-> url, output_file |-> output_file,
                   env |-> env, r |-> r]
       /\ files' = ApplyWrites(files, r.writes)
  /\ ProbeUnchanged

SpecScrape == InitProbe /\ [][ScrapeCall]_vars

\* the documents get_relevant_data is tried on: up to MaxElems elements
MaxElems == 2
ElemPool ==
  { Elem(c, t) : c \in {<<"x">>, <<"y">>},
                 t \in {<<"A">>, <<" ", "B", "\n">>, <<" ">>} }
Pages == SeqsUpTo(ElemPool, MaxElems)
Selectors ==
  { JNull, JStr(<<>>), JStr(<<".", "x">>), JStr(<<".", "y">>), JStr(<<"p">>),
    JStr(<<".", "!">>), JNum(1) }

\* the file system holds no file, or one document at P_f
InitExtract ==
  /\ request = [task |-> <<"t">>, plan |-> <<>>, promptFile |-> FALSE]
  /\ hasKey = TRUE /\ pc = "probe" /\ messages = <<>> /\ msg = NoMsg
  /\ tool_calls = <<>> /\ tc_idx = 0 /\ iter_no = 0 /\ start = 0 /\ now = 0
  /\ result = NoResult /\ error = "" /\ sent = <<>> /\ netCalls = 0
  /\ dispatched = 0 /\ call = NoCall /\ app = NoApp /\ conc = NoConc
  /\ files \in {<<>>} \cup
       {ApplyWrites(<<>>, <<[path |-> P_f, content |-> HtmlFile(pg)]>>) : pg \in Pages}

\* one call of get_relevant_data
ExtractCall ==
  /\ pc = "probe"
  /\ \E file_name \in {P_f, DEFAULT_OUTPUT_FILE}, js_selector \in Selectors :
       LET r == get_relevant_data(file_name, js_selector, files) IN
       call' = [fn |-> "get_relevant_data", file_name |-> file_name,
                js_selector |-> js_selector, r |-> r]
  /\ UNCHANGED files
  /\ ProbeUnchanged

SpecExtract == InitExtract /\ [][ExtractCall]_vars

(***************************************************************************)
(* Properties of answer_questions (SpecRunner)                             *)
(***************************************************************************)
RunnerCalled == pc = "probe" /\ call # NoCall /\ call.fn = "answer_questions"

\* C8 as claimed: answer_questions returns the failure payload if and only if
\* the child exited non-zero and its standard output is empty; in every other
\* case, whitespace-only output included, it returns the output verbatim.
C8_Original ==
  RunnerCalled =>
    LET failed == call.proc.returncode # 0 /\ call.proc.stdout = <<>> IN
    /\ IsFailurePayload(call.r.ret.s) <=> failed
    /\ ~failed => call.r.ret.s = call.proc.stdout

\* C8 amended: answer_questions returns the failure payload if and only if the
\* child exited non-zero and its standard output is empty or whitespace only;
\* in every other case it returns the standard output verbatim.
C8_PayloadIffNonZeroAndBlankStdout ==
  RunnerCalled =>
    LET failed == call.proc.returncode # 0 /\ AllWhitespace(call.proc.stdout) IN
    /\ ~call.r.raised
    /\ IsFailurePayload(call.r.ret.s) <=> failed
    /\ ~failed => call.r.ret.s = call.proc.stdout

C8_Witness ==
  /\ RunnerCalled
  /\ call.proc.returncode # 0
  /\ call.proc.stdout = <<" ">>
  /\ IsFailurePayload(call.r.ret.s)

\* C9 as claimed: for a program that exits non-zero and prints nothing, the
\* returned string is a JSON object with "error" = "code_failed" and a
\* non-empty error-stream field.
C9_Original ==
  (RunnerCalled /\ call.proc.returncode # 0 /\ call.proc.stdout = <<>>) =>
    /\ IsFailurePayload(call.r.ret.s)
    /\ DictGet(Loads(call.r.ret.s).v, S_stderr).t = "str"
    /\ DictGet(Loads(call.r.ret.s).v, S_stderr).s # <<>>

\* C9 amended: for a program that exits non-zero and prints nothing, the
\* returned string is a JSON object with exactly the keys "error" and
\* "stderr", "error" = "code_failed" and "stderr" the captured error stream
\* (empty when the program wrote nothing to it).
C9_PayloadCarriesStderr ==
  (RunnerCalled /\ call.proc.returncode # 0 /\ call.proc.stdout = <<>>) =>
    /\ IsFailurePayload(call.r.ret.s)
    /\ DictKeys(Loads(call.r.ret.s).v) = {S_error, S_stderr}
    /\ DictGet(Loads(call.r.ret.s).v, S_stderr) = JStr(call.proc.stderr)

C9_Witness ==
  /\ RunnerCalled
  /\ call.proc.returncode # 0
  /\ call.proc.stdout = <<>>
  /\ call.proc.stderr = <<>>
  /\ DictGet(Loads(call.r.ret.s).v, S_stderr) = JStr(<<>>)

(***************************************************************************)
(* Properties of scrape_website (SpecScrape)                               *)
(***************************************************************************)
ScrapeCalled == pc = "probe" /\ call # NoCall /\ call.fn = "scrape_website"

Engine(r) == DictGet(r.ret, S_engine)

\* C10 as claimed: a direct fetch that fails or yields a body below the
\* threshold falls back to the browser and reports the rendering engine; a
\* direct fetch that yields (status 200, written) a body at or above the
\* threshold reports the direct-fetch engine and launches no browser.
C10_Original ==
  ScrapeCalled =>
    LET e == call.env IN
    /\ (e.http = "error" \/ e.len < SIZE_THRESHOLD) =>
         (~call.r.raised => Engine(call.r) = JStr(S_playwright))
    /\ (e.http = "ok" /\ e.status = 200 /\ e.fastWrite /\ e.len >= SIZE_THRESHOLD) =>
         (~call.r.raised /\ Engine(call.r) = JStr(S_httpx) /\ ~call.r.launched)

\* C10 amended: scrape_website reports the direct-fetch engine, launching no
\* browser, exactly when the direct fetch answers 200 with a body strictly
\* longer than the threshold (10000 characters) and the body is written; in
\* every other case (a body of at most 10000 characters, another status, a
\* failed fetch or write) it takes the browser path, and reports the
\* rendering engine when that path returns.
C10_EngineByStrictThreshold ==
  ScrapeCalled =>
    LET e == call.env
        direct == e.http = "ok" /\ e.status = 200 /\ e.len > 10000 /\ e.fastWrite
    IN IF direct
       THEN /\ ~call.r.raised
            /\ Engine(call.r) = JStr(S_httpx)
            /\ ~call.r.launched
       ELSE /\ call.r.launched <=> e.browser # "launch"
            /\ call.r.raised <=> e.browser # "none"
            /\ ~call.r.raised => Engine(call.r) = JStr(S_playwright)

C10_Witness ==
  /\ ScrapeCalled
  /\ call.env.http = "ok" /\ call.env.status = 200
  /\ call.env.len = 10000
  /\ call.r.launched
  /\ ~call.r.raised
  /\ Engine(call.r) = JStr(S_playwright)
(***************************************************************************)
(* Properties of get_relevant_data (SpecExtract)                           *)
(***************************************************************************)
ExtractCalled == pc = "probe" /\ call # NoCall /\ call.fn = "get_relevant_data"

\* the positions, in the document at P_f, of the elements a selector matches
MatchingPositions(sel) ==
  {j \in 1..Len(FileElems(files[P_f])) : Matches(FileElems(files[P_f])[j], sel)}
\* the k-th smallest of a set of positions
KthPosition(ps, k) == CHOOSE j \in ps : Cardinality({i \in ps : i < j}) = k - 1
\* a str without leading or trailing whitespace
IsStripped(str) ==
  str = <<>> \/ (str[1] \notin PyWhitespace /\ str[Len(str)] \notin PyWhitespace)

\* C11: get_relevant_data on an existing document, with a (non-empty, well
\* formed) selector, returns under "data" the stripped text of the matched
\* elements, one entry per match in document order, and under "count" the
\* length of that sequence; with no selector (None or the empty string) it
\* returns under "data" the stripped texts of the whole document joined by
\* single spaces, as one string, and no "count".
C11_SelectorGivesOrderedTextsAndCount ==
  (ExtractCalled /\ call.file_name \in DOMAIN files) =>
    LET sel == call.js_selector
        ret == call.r.ret
        els == FileElems(files[P_f])
    IN /\ (sel.t = "str" /\ sel.s # <<>> /\ SelectorValid(sel.s)) =>
            LET ps == MatchingPositions(sel.s)
                data == DictGet(ret, S_data)
            IN /\ ~call.r.raised
               /\ data.t = "arr"
               /\ Len(data.a) = Cardinality(ps)
               /\ \A k \in 1..Len(data.a) :
                    /\ data.a[k].t = "str"
                    /\ data.a[k].s = Strip(els[KthPosition(ps, k)].text)
               /\ DictGet(ret, S_count) = JNum(Len(data.a))
       /\ (sel.t = "null" \/ (sel.t = "str" /\ sel.s = <<>>)) =>
            LET data == DictGet(ret, S_data) IN
            /\ ~call.r.raised
            /\ DictKeys(ret) = {S_data}
            /\ data.t = "str"
            /\ IsStripped(data.s)
            /\ \A j \in 1..Len(els) :
                 Strip(els[j].text) # <<>> =>
                   \E a \in 1..Len(data.s) :
                     SubSeq(data.s, a, a + Len(Strip(els[j].text)) - 1) = Strip(els[j].text)
            /\ (\A j \in 1..Len(els) : Strip(els[j].text) = <<>>) => data.s = <<>>

C11_Witness ==
  /\ ExtractCalled
  /\ call.js_selector = JStr(<<".", "x">>)
  /\ ~call.r.raised
  /\ DictGet(call.r.ret, S_count) = JNum(2)
  /\ DictGet(call.r.ret, S_data) = JArr(<<JStr(<<"B">>), JStr(<<"A">>)>>)
(***************************************************************************)
(* Properties of the front door with the executor (SpecApp)                *)
(***************************************************************************)
ExecutorEnded == app.phase = "done" /\ pc \in {"returned", "failed"}

\* C12 as claimed: when run_agent_for_api fails because the tool loop
\* exceeded its time budget, the front door answers 504; for every other
\* failure of run_agent_for_api it answers 500.
C12_TimeoutIs504OthersAre500 ==
  (ExecutorEnded /\ pc = "failed") =>
    IF error = "TimeoutError" THEN app.status = 504 ELSE app.status = 500

\* C13 as claimed: if OPENAI_API_KEY is absent, the request fails with the
\* configuration error before any network call has been made on its behalf,
\* to the planner's model or to the executor's.
C13_Original ==
  (~hasKey /\ pc = "failed" /\ error = "RuntimeError") =>
    (netCalls = 0 /\ app.planCalls = 0)

\* C13 amended: if OPENAI_API_KEY is absent, run_agent_for_api fails with the
\* configuration error in its first iteration, before any request has been
\* posted to the model gateway and before any tool is dispatched, and the
\* front door answers 500; the planner's request, sent by the front door
\* before the executor starts, has been made by then.
C13_NoGatewayCallWithoutKey ==
  (~hasKey /\ app.phase \in {"exec", "done"} /\ pc # "idle") =>
    /\ netCalls = 0
    /\ dispatched = 0
    /\ app.planCalls = 1
    /\ pc \in {"check", "chat", "failed"}
    /\ pc = "check" => iter_no = 0
    /\ pc \in {"chat", "failed"} => iter_no = 1
    /\ pc = "failed" => (error = "RuntimeError" /\ messages = SeedMessages(request))
    /\ app.phase = "done" => (pc = "failed" /\ app.status = 500)

C13_Witness ==
  /\ ~hasKey
  /\ app.phase = "done" /\ app.status = 500
  /\ pc = "failed" /\ error = "RuntimeError"
  /\ netCalls = 0 /\ app.planCalls = 1
Terminated == pc \in {"returned", "failed"}

\* the last tool call raised, so that not every tool call returned
ToolCallRaised == call # NoCall /\ call.r.raised

\* C19: when every model call and every tool call returns and each model
\* call takes clock time, every execution of run_agent_for_api terminates,
\* also when every reply requests tools: it passes the budget test at most
\* Budget + 1 times, and it ends with the parsed JSON value, with Timeout, or
\* with the parse failure of a final reply.  (An execution in which a tool
\* call raises ends there, with that exception.)
C19_Terminates ==
  /\ <>Terminated
  /\ [](iter_no <= Budget + 1)
  /\ [](pc = "returned" => (result # NoResult /\ error = ""))
  /\ [](pc = "failed" =>
         /\ result = NoResult
         /\ \/ error \in {"TimeoutError", "JSONDecodeError"}
            \/ ToolCallRaised /\ error = call.r.exc)

C19_Witness ==
  /\ pc = "failed" /\ error = "TimeoutError"
  /\ iter_no = Len(sent)
  /\ Cardinality({j \in 1..Len(messages) : messages[j].role = "assistant"}) = iter_no
  /\ iter_no >= 2

(***************************************************************************)
(* Two requests at once                                                    *)
(***************************************************************************)
\* the conversation of request i holds its own seed, the tool calls the
\* model requested of it and the results answering them
OwnConversation(i) ==
  LET f == conc.req[i]
      own == {ConcId(i, k) : k \in 1..MaxConcCalls}
  IN f.pc # "new" =>
       /\ Len(f.messages) >= 2
       /\ SubSeq(f.messages, 1, 2) =
            SeedMessages([task |-> ConcInput(i).task, plan |-> <<>>, promptFile |-> FALSE])
       /\ \A k \in 3..Len(f.messages) :
            IF f.messages[k].role = "tool"
            THEN f.messages[k].tool_call_id \in own
            ELSE /\ f.messages[k].role = "assistant"
                 /\ \A j \in DOMAIN f.messages[k].tool_calls :
                      f.messages[k].tool_calls[j].id \in own

\* C20 (first half): two requests served at once share no conversation
\* state: each conversation holds only its own request's messages; a step
\* that appends to one conversation extends it and leaves the other
\* request's conversation and start time (hence its deadline) as they were;
\* a started request's start time never changes, and a request times out only
\* when its own deadline has passed.  The script answer_questions runs is the
\* one that call wrote (it does not await between writing and running).
C20_RequestsShareNoConversation ==
  /\ [](\A i \in {1, 2} : OwnConversation(i))
  /\ []((conc.last.rid # 0 /\ conc.last.invoked = "answer_questions")
          => conc.last.src = conc.last.rid)
  /\ [][\A i \in {1, 2} :
          /\ conc'.req[i].messages # conc.req[i].messages =>
               /\ IsPrefix(conc.req[i].messages, conc'.req[i].messages)
               /\ conc'.req[(3 - i)].messages = conc.req[(3 - i)].messages
               /\ conc'.req[(3 - i)].start = conc.req[(3 - i)].start
          /\ conc.req[i].pc # "new" => conc'.req[i].start = conc.req[i].start
          /\ (conc.req[i].error = "" /\ conc'.req[i].error = "TimeoutError") =>
               now - conc.req[i].start > Budget]_vars

\* C20 (second half): both requests scrape to the same markup path; request
\* 1 has written its page there, and while request 2 is still in flight a
\* get_relevant_data call of request 1 reads the markup request 2 wrote
C20_Witness ==
  /\ conc.mode = "loop"
  /\ conc.last.rid = 1
  /\ conc.last.invoked = "get_relevant_data"
  /\ conc.last.path = P_f
  /\ conc.last.src = 2
  /\ conc.req[2].pc \in {"await_page", "await_close"}
  /\ \E k \in DOMAIN conc.req[1].messages :
       /\ conc.req[1].messages[k].role = "tool"
       /\ conc.req[1].messages[k].content = Dumps(ScrapeResult(P_f, U_u, S_playwright))
  /\ conc.last.out =
       Dumps(get_relevant_data(P_f, JStr(<<".", "x">>),
                               [p \in {P_f} |-> HtmlFile(PageOf(ConcInput(2).url))]).ret)
  /\ conc.req[1].messages[Len(conc.req[1].messages)].content = conc.last.out

====
